---------------------------- MODULE Spec2Model ----------------------------
(***************************************************************************)
(* A model of the data pipeline of sudan_damage_vis.py: the spatial        *)
(* trimmer (load_data_for_date), the block averager (chunk_data,           *)
(* block_average), the normalizer (normalize_data), the temporal           *)
(* differencer (get_difference_data) and the coordinate handling of the    *)
(* script body.                                                            *)
(*                                                                         *)
(* Numbers.  A brightness sample is a NumPy float.  It is modelled as an   *)
(* exact rational, or as one of the IEEE specials the code can produce:    *)
(* not-a-number and the two infinities.  Rounding is not modelled; the     *)
(* sign of a zero is not modelled either (-0.0 compares equal to 0.0 in    *)
(* every comparison the code makes).                                       *)
(*                                                                         *)
(* Texts.  A text is the sequence of the code points of its characters.    *)
(* A typed number is read as an exact decimal, inf beyond the range of a   *)
(* double and 0.0 below it.                                                *)
(*                                                                         *)
(* A tile is the tuple (values, lat, lon) of the code; values is a         *)
(* sequence of rows, lat and lon are sequences of integers.                *)
(***************************************************************************)
EXTENDS Integers, Sequences, FiniteSets

VARIABLES
    pc,                 \* the position of the call being modelled
    files,              \* the tile store, in the order glob.glob discovers it
    date_wanted,        \* load_data_for_date: the requested date
    coords,             \* the bounding box (south, north, west, east)
    data_list,          \* the list a call works on / returns
    input_list,         \* the list as it was handed to the call
    i,                  \* chunk_data: the loop index
    chunk_size,         \* chunk_data / get_difference_data: the factor
    dateEarly,          \* get_difference_data: the two dates
    dateLater,
    relative,           \* get_difference_data: the flags
    normalize,
    data_list1,         \* get_difference_data: the two TileSets
    data_list2,
    difference_list,    \* get_difference_data: the result
    raised,             \* the call ended with an exception
    custom_coords_text, \* the text typed into the coordinate box
    preset_choice,      \* the preset selected
    error_shown         \* st.error was called

vars == <<pc, files, date_wanted, coords, data_list, input_list, i, chunk_size,
          dateEarly, dateLater, relative, normalize, data_list1, data_list2,
          difference_list, raised, custom_coords_text, preset_choice,
          error_shown>>

-----------------------------------------------------------------------------
(* Bounds of the model.                                                    *)

MaxTiles == 2       \* tiles in a list handed to chunk_data / normalize_data
MaxDim == 4         \* rows and columns of a tile handed to chunk_data
MaxChunk == 3       \* the downsampling factor
MaxLen == 3         \* entries of a coordinate vector handed to the trimmer
MaxFiles == 3       \* files in the store
MaxFields == 5      \* comma-separated fields of the typed coordinate text

-----------------------------------------------------------------------------
(* NumPy floats.                                                           *)

Abs(x) == IF x < 0 THEN -x ELSE x

Sgn(x) == IF x < 0 THEN -1 ELSE IF x > 0 THEN 1 ELSE 0

RECURSIVE GCD(_, _)
GCD(a, b) == IF b = 0 THEN a ELSE GCD(b, a % b)

\* The float n/d (d > 0), in lowest terms.
Num(n, d) ==
    LET g == GCD(Abs(n), d)
    IN  [k |-> "num", n |-> n \div g, d |-> d \div g]

NaN == [k |-> "nan", n |-> 0, d |-> 1]

Inf(s) == [k |-> "inf", n |-> s, d |-> 1]

IsNaN(x) == x.k = "nan"
IsInf(x) == x.k = "inf"
IsNum(x) == x.k = "num"

\* x + y
FAdd(x, y) ==
    IF IsNaN(x) \/ IsNaN(y) THEN NaN
    ELSE IF IsInf(x) /\ IsInf(y) THEN (IF x.n = y.n THEN x ELSE NaN)
    ELSE IF IsInf(x) THEN x
    ELSE IF IsInf(y) THEN y
    ELSE Num(x.n * y.d + y.n * x.d, x.d * y.d)

\* -x
FNeg(x) == IF IsNaN(x) THEN NaN ELSE [x EXCEPT !.n = -x.n]

\* x - y
FSub(x, y) == FAdd(x, FNeg(y))

\* x / y
FDiv(x, y) ==
    IF IsNaN(x) \/ IsNaN(y) THEN NaN
    ELSE IF IsInf(y) THEN (IF IsInf(x) THEN NaN ELSE Num(0, 1))
    ELSE IF y.n = 0 THEN (IF x.n = 0 THEN NaN ELSE Inf(Sgn(x.n)))
    ELSE IF IsInf(x) THEN Inf(x.n * Sgn(y.n))
    ELSE Num(x.n * y.d * Sgn(y.n), x.d * Abs(y.n))

\* x == y (every comparison with not-a-number is false)
FEq(x, y) == ~IsNaN(x) /\ ~IsNaN(y) /\ x = y

Zero == Num(0, 1)

-----------------------------------------------------------------------------
(* Arrays.                                                                 *)

Rows(matrix) == Len(matrix)

Cols(matrix) == IF Len(matrix) = 0 THEN 0 ELSE Len(matrix[1])

\* v[::n]
Stride(v, n) == [k \in 1..((Len(v) + n - 1) \div n) |-> v[(k - 1) * n + 1]]

\* v[first:last+1], first and last 1-based
Slice(v, first, last) == [k \in 1..(last - first + 1) |-> v[first + k - 1]]

RECURSIVE SumSeq(_)
SumSeq(s) == IF s = <<>> THEN Zero ELSE FAdd(SumSeq(Tail(s)), Head(s))

\* np.sum(matrix): not-a-number propagates
Sum(matrix) == SumSeq([r \in 1..Len(matrix) |-> SumSeq(matrix[r])])

-----------------------------------------------------------------------------
(* block_average and chunk_data.                                           *)

\* A slip in block_average: only the row count is tested before reshaping.
block_average_raises_rows_only(matrix, n) ==
    LET ny == Rows(matrix)
        ny_trim == ny - (ny % n)
    IN  ny_trim = 0

\* block_average raises ValueError
block_average_raises(matrix, n) ==
    LET ny == Rows(matrix)
        nx == Cols(matrix)
        ny_trim == ny - (ny % n)
        nx_trim == nx - (nx % n)
    IN  ny_trim = 0 \/ nx_trim = 0

\* block_average returns: the mean of each n x n block of the trimmed matrix
block_average(matrix, n) ==
    LET ny == Rows(matrix)
        nx == Cols(matrix)
        ny_trim == ny - (ny % n)
        nx_trim == nx - (nx % n)
        Block(r, c) ==
            [a \in 1..n |-> [b \in 1..n |-> matrix[(r - 1) * n + a][(c - 1) * n + b]]]
    IN  [r \in 1..(ny_trim \div n) |->
            [c \in 1..(nx_trim \div n) |-> FDiv(Sum(Block(r, c)), Num(n * n, 1))]]

\* del l[k]
DelAt(l, k) == [j \in 1..(Len(l) - 1) |-> IF j < k THEN l[j] ELSE l[j + 1]]

\* One iteration of the while loop of chunk_data, at index idx (the code's i).
chunk_iteration(l, idx, n) ==
    LET values == l[idx][1]
        lat == l[idx][2]
        lon == l[idx][3]
    IN  IF block_average_raises(values, n)
        THEN DelAt(l, idx)
        ELSE [l EXCEPT ![idx] = <<block_average(values, n), Stride(lat, n), Stride(lon, n)>>]

RECURSIVE chunk_loop(_, _, _)
chunk_loop(l, idx, n) ==
    IF idx > 0 THEN chunk_loop(chunk_iteration(l, idx, n), idx - 1, n) ELSE l

\* chunk_data(data_list, chunk_size): the list after the call
chunk_data(l, n) == chunk_loop(l, Len(l), n)

-----------------------------------------------------------------------------
(* load_data_for_date.                                                     *)

\* A file of the store: its RangeEndingDate attribute, its
\* NearNadir_Composite_Snow_Free grid (raw integers here) and its lat and
\* lon vectors.
\* The raw sample at latitude la and longitude lo in version p of a grid;
\* negative samples are the invalid ones.
RawSample(p, la, lo) ==
    CASE p = "a" -> la - lo
      [] p = "b" -> la - lo + 1
      [] p = "c" -> (la + lo) % 3
      [] p = "d" -> ((la * lo) % 3) - 1

MakeFile(date, lat, lon, p) ==
    [date |-> date, lat |-> lat, lon |-> lon,
     light |-> [r \in 1..Len(lat) |-> [c \in 1..Len(lon) |-> RawSample(p, lat[r], lon[c])]]]

\* np.where(light_data < 0, np.nan, light_data)
MaskInvalid(light) ==
    [r \in 1..Len(light) |->
        [c \in 1..Len(light[r]) |->
            IF light[r][c] < 0 THEN NaN ELSE Num(light[r][c], 1)]]

\* np.where((lo <= v) & (v <= hi)): the indices of the entries in range
ValidIndices(v, lo, hi) == { k \in 1..Len(v) : lo <= v[k] /\ v[k] <= hi }

SetMin(S) == CHOOSE x \in S : \A y \in S : x <= y
SetMax(S) == CHOOSE x \in S : \A y \in S : x >= y

\* The file has nothing in the bounding box: the loop continues.
NoOverlap(f, box) ==
    \/ ValidIndices(f.lon, box[3], box[4]) = {}
    \/ ValidIndices(f.lat, box[1], box[2]) = {}

\* A slip in the crop: the latitude vector is left as loaded.
CropTile_lat_uncropped(f, box) ==
    LET valid_lon == ValidIndices(f.lon, box[3], box[4])
        valid_lat == ValidIndices(f.lat, box[1], box[2])
        first_lon == SetMin(valid_lon)
        last_lon == SetMax(valid_lon)
        first_lat == SetMin(valid_lat)
        last_lat == SetMax(valid_lat)
        light_data == MaskInvalid(f.light)
    IN  << [r \in 1..(last_lat - first_lat + 1) |->
               Slice(light_data[first_lat + r - 1], first_lon, last_lon)],
           f.lat,
           Slice(f.lon, first_lon, last_lon) >>

\* The tile a file contributes: the grid and both vectors cropped to
\* [first_lat, last_lat] x [first_lon, last_lon].
CropTile(f, box) ==
    LET valid_lon == ValidIndices(f.lon, box[3], box[4])
        valid_lat == ValidIndices(f.lat, box[1], box[2])
        first_lon == SetMin(valid_lon)
        last_lon == SetMax(valid_lon)
        first_lat == SetMin(valid_lat)
        last_lat == SetMax(valid_lat)
        light_data == MaskInvalid(f.light)
    IN  << [r \in 1..(last_lat - first_lat + 1) |->
               Slice(light_data[first_lat + r - 1], first_lon, last_lon)],
           Slice(f.lat, first_lat, last_lat),
           Slice(f.lon, first_lon, last_lon) >>

\* The for loop over the files: data_list after the first k files.
RECURSIVE LoadLoop(_, _, _, _)
LoadLoop(date, box, fs, k) ==
    IF k = 0 THEN <<>>
    ELSE LET before == LoadLoop(date, box, fs, k - 1)
             f == fs[k]
         IN  IF f.date = date /\ ~NoOverlap(f, box)
             THEN Append(before, CropTile(f, box))
             ELSE before

\* The sort key (data[-2][0], data[-1][0]), compared as Python compares tuples.
KeyLess(a, b) == a[2][1] < b[2][1] \/ (a[2][1] = b[2][1] /\ a[3][1] < b[3][1])

RECURSIVE InsertStable(_, _)
InsertStable(s, x) ==
    IF Len(s) = 0 THEN <<x>>
    ELSE IF KeyLess(x, s[1]) THEN <<x>> \o s
    ELSE <<s[1]>> \o InsertStable(Tail(s), x)

RECURSIVE SortedUpTo(_, _)
SortedUpTo(l, k) == IF k = 0 THEN <<>> ELSE InsertStable(SortedUpTo(l, k - 1), l[k])

\* A slip: the list is returned as collected, unsorted.
sorted_omitted(l) == l

\* sorted(data_list, key=...): a stable sort
sorted(l) == SortedUpTo(l, Len(l))

load_data_for_date(date, box, fs) == sorted(LoadLoop(date, box, fs, Len(fs)))

-----------------------------------------------------------------------------
(* normalize_data.                                                         *)

\* sumLights: the sum of np.sum(data[0]) over the tiles
SumLights(l) == SumSeq([k \in 1..Len(l) |-> Sum(l[k][1])])

\* values / sumLights
DivideAll(values, total) ==
    [r \in 1..Len(values) |-> [c \in 1..Len(values[r]) |-> FDiv(values[r][c], total)]]

normalize_data(l) ==
    LET sumLights == SumLights(l)
    IN  [k \in 1..Len(l) |-> <<DivideAll(l[k][1], sumLights), l[k][2], l[k][3]>>]

-----------------------------------------------------------------------------
(* get_difference_data.                                                    *)

\* load_data_for_date, then chunk_data if chunk_size > 1, then
\* normalize_data if normalize: one date's TileSet as the zip loop gets it.
PreparedList(date, box, n, norm, fs) ==
    LET loaded == load_data_for_date(date, box, fs)
        chunked == IF n > 1 THEN chunk_data(loaded, n) ELSE loaded
    IN  IF norm THEN normalize_data(chunked) ELSE chunked

\* NumPy broadcasting of two 2-D arrays: each axis equal, or 1 on one side.
Broadcastable(x, y) ==
    /\ Rows(x) = Rows(y) \/ Rows(x) = 1 \/ Rows(y) = 1
    /\ Cols(x) = Cols(y) \/ Cols(x) = 1 \/ Cols(y) = 1

Max(a, b) == IF a >= b THEN a ELSE b
Min(a, b) == IF a <= b THEN a ELSE b

\* The entry of x that broadcasting puts at (r, c).
At(x, r, c) == x[IF Rows(x) = 1 THEN 1 ELSE r][IF Cols(x) = 1 THEN 1 ELSE c]

\* A slip: the sentinel denominator written as 1.
RelativeDenominator_plus(light1) ==
    [r \in 1..Len(light1) |->
        [c \in 1..Len(light1[r]) |->
            IF FEq(light1[r][c], Zero) THEN Num(1, 1) ELSE light1[r][c]]]

\* np.where(light1 == 0, -1, light1)
RelativeDenominator(light1) ==
    [r \in 1..Len(light1) |->
        [c \in 1..Len(light1[r]) |->
            IF FEq(light1[r][c], Zero) THEN Num(-1, 1) ELSE light1[r][c]]]

\* A slip: the operands of the subtraction exchanged.
Difference_swapped(light1, light2, rel) ==
    LET den == IF rel THEN RelativeDenominator(light1) ELSE light1
    IN  [r \in 1..Max(Rows(light1), Rows(light2)) |->
            [c \in 1..Max(Cols(light1), Cols(light2)) |->
                IF rel THEN FDiv(At(light2, r, c), At(den, r, c))
                ELSE FSub(At(light1, r, c), At(light2, r, c))]]

\* light2 / np.where(light1 == 0, -1, light1), or light2 - light1
Difference(light1, light2, rel) ==
    LET den == IF rel THEN RelativeDenominator(light1) ELSE light1
    IN  [r \in 1..Max(Rows(light1), Rows(light2)) |->
            [c \in 1..Max(Cols(light1), Cols(light2)) |->
                IF rel THEN FDiv(At(light2, r, c), At(den, r, c))
                ELSE FSub(At(light2, r, c), At(light1, r, c))]]

\* The zip loop raises ValueError: the grids of some pair cannot be broadcast.
ZipRaises(l1, l2) ==
    \E k \in 1..Min(Len(l1), Len(l2)) : ~Broadcastable(l1[k][1], l2[k][1])

\* The zip loop's difference_list.
ZipDifference(l1, l2, rel) ==
    [k \in 1..Min(Len(l1), Len(l2)) |->
        <<Difference(l1[k][1], l2[k][1], rel), l1[k][2], l1[k][3]>>]

-----------------------------------------------------------------------------
(* Coordinate selection handling.  A text is a sequence of characters; a   *)
(* coordinate is a float.                                                  *)

PRESET_COORD_LAYOUTS ==
    [ Sudan |-> [lat_min |-> Num(9, 1), lat_max |-> Num(23, 1),
                 lon_min |-> Num(21, 1), lon_max |-> Num(39, 1)],
      Khartoum |-> [lat_min |-> Num(1475, 100), lat_max |-> Num(165, 10),
                    lon_min |-> Num(316, 10), lon_max |-> Num(335, 10)],
      Darfur |-> [lat_min |-> Num(8, 1), lat_max |-> Num(21, 1),
                  lon_min |-> Num(21, 1), lon_max |-> Num(30, 1)],
      NileRiver |-> [lat_min |-> Num(16, 1), lat_max |-> Num(23, 1),
                     lon_min |-> Num(28, 1), lon_max |-> Num(36, 1)] ]

\* tuple(PRESET_COORD_LAYOUTS[preset_choice].values()): the values in the
\* order the dict literal gives them
PresetValues(name) ==
    LET q == PRESET_COORD_LAYOUTS[name]
    IN  <<q.lat_min, q.lat_max, q.lon_min, q.lon_max>>

\* (p["lat_min"], p["lat_max"], p["lon_min"], p["lon_max"])
PresetTuple(name) ==
    LET q == PRESET_COORD_LAYOUTS[name]
    IN  <<q["lat_min"], q["lat_max"], q["lon_min"], q["lon_max"]>>

\* A text is the sequence of the code points of its characters.  Ascii
\* lists the ASCII characters of code points 32 to 95 in order, Letters
\* the small letters, code points 97 to 122.
Ascii ==
    << " ", "!", "\"", "#", "$", "%", "&", "'", "(", ")", "*", "+",
       ",", "-", ".", "/", "0", "1", "2", "3", "4", "5", "6", "7",
       "8", "9", ":", ";", "<", "=", ">", "?", "@", "A", "B", "C",
       "D", "E", "F", "G", "H", "I", "J", "K", "L", "M", "N", "O",
       "P", "Q", "R", "S", "T", "U", "V", "W", "X", "Y", "Z", "[",
       "\\", "]", "^", "_" >>

Letters ==
    << "a", "b", "c", "d", "e", "f", "g", "h", "i", "j", "k", "l", "m",
       "n", "o", "p", "q", "r", "s", "t", "u", "v", "w", "x", "y", "z" >>

\* The code point of one of these characters
Ord(c) ==
    IF \E k \in DOMAIN Ascii : Ascii[k] = c
    THEN 31 + CHOOSE k \in DOMAIN Ascii : Ascii[k] = c
    ELSE 96 + CHOOSE k \in DOMAIN Letters : Letters[k] = c

\* The text of a run of such characters
Text(cs) == [k \in 1..Len(cs) |-> Ord(cs[k])]

Comma == Ord(",")
Point == Ord(".")
Underscore == Ord("_")
Minus == Ord("-")
Signs == {Ord("+"), Ord("-")}
ExpMarks == {Ord("e"), Ord("E")}
CapitalA == Ord("A")
CapitalZ == Ord("Z")
SmallA == Ord("a")

\* str.strip() drops these around a text: the characters str.isspace()
\* holds of.  U+0009 to U+000D, U+001C to U+0020, U+0085, U+00A0, U+1680,
\* U+2000 to U+200A, U+2028, U+2029, U+202F, U+205F and U+3000.
Whitespace ==
    (9..13) \cup (28..32) \cup {133, 160, 5760} \cup (8192..8202)
        \cup {8232, 8233, 8239, 8287, 12288}

\* float() drops these around a number: the separators U+001C to U+001F
\* are not among them
FloatSpace == Whitespace \ (28..31)

\* The place of the first entry of t that is not in S, Len(t) + 1 when all are
FirstOutside(t, S) ==
    IF \E k \in 1..Len(t) : t[k] \notin S
    THEN CHOOSE k \in 1..Len(t) : t[k] \notin S /\ \A j \in 1..(k - 1) : t[j] \in S
    ELSE Len(t) + 1

\* The place of the last entry of t that is not in S, 0 when all are
LastOutside(t, S) ==
    IF \E k \in 1..Len(t) : t[k] \notin S
    THEN CHOOSE k \in 1..Len(t) : t[k] \notin S /\ \A j \in (k + 1)..Len(t) : t[j] \in S
    ELSE 0

\* t without its leading (trailing) entries that are in S
LSkip(t, S) == SubSeq(t, FirstOutside(t, S), Len(t))

RSkip(t, S) == SubSeq(t, 1, LastOutside(t, S))

\* text.strip()
LStrip(t) == LSkip(t, Whitespace)

RStrip(t) == RSkip(t, Whitespace)

strip(t) == RStrip(LStrip(t))

\* text.split(","): the fields between the commas, empty ones included
Commas(t) == { k \in 1..Len(t) : t[k] = Comma }

\* The place of the j-th comma of t
CommaAt(t, j) ==
    CHOOSE k \in Commas(t) : Cardinality({ c \in Commas(t) : c < k }) = j - 1

split(t) ==
    LET n == Cardinality(Commas(t)) + 1
    IN  [j \in 1..n |->
            SubSeq(t, IF j = 1 THEN 1 ELSE CommaAt(t, j - 1) + 1,
                      IF j = n THEN Len(t) ELSE CommaAt(t, j) - 1)]

\* The decimal digits float() reads are the ten characters from the zero of
\* each script on: the code points of the zeros, U+0030 first.
DigitZeros ==
    { 48, 1632, 1776, 1984, 2406, 2534, 2662, 2790, 2918, 3046,
      3174, 3302, 3430, 3558, 3664, 3792, 3872, 4160, 4240, 6112,
      6160, 6470, 6608, 6784, 6800, 6992, 7088, 7232, 7248, 42528,
      43216, 43264, 43472, 43504, 43600, 44016, 65296, 66720, 68912, 69734,
      69872, 69942, 70096, 70384, 70736, 70864, 71248, 71360, 71472, 71904,
      72016, 72784, 73040, 73120, 92768, 92864, 93008, 120782, 120792, 120802,
      120812, 120822, 123200, 123632, 125264, 130032 }

IsDigitChar(c) == \E z \in DigitZeros : c \in z..(z + 9)

\* The value of a decimal digit
DigitValue(c) == c - (CHOOSE z \in DigitZeros : c \in z..(z + 9))

\* float() reads the words nan, inf and infinity and the exponent mark in
\* either case: the ASCII capitals count as the small letters.
Lower(c) == IF c \in CapitalA..CapitalZ THEN c + (SmallA - CapitalA) ELSE c

LowerAll(t) == [k \in 1..Len(t) |-> Lower(t[k])]

\* A run of digits in which single underscores may stand between two digits
DigitPart(u) ==
    /\ Len(u) > 0
    /\ IsDigitChar(u[1])
    /\ IsDigitChar(u[Len(u)])
    /\ \A k \in 1..Len(u) : IsDigitChar(u[k]) \/ u[k] = Underscore
    /\ \A k \in 1..(Len(u) - 1) : ~(u[k] = Underscore /\ u[k + 1] = Underscore)

\* The values of the digits of u, underscores left out
DigitsOf(u) ==
    LET ds == SelectSeq(u, IsDigitChar)
    IN  [k \in 1..Len(ds) |-> DigitValue(ds[k])]

DropZeros(u) == LSkip(u, {0})

DropTrailingZeros(u) == RSkip(u, {0})

\* The place of the first character of t that is in S, 0 when there is none
IndexOf(t, S) ==
    IF \E k \in 1..Len(t) : t[k] \in S
    THEN CHOOSE k \in 1..Len(t) : t[k] \in S /\ \A j \in 1..(k - 1) : t[j] \notin S
    ELSE 0

RECURSIVE DecimalValue(_)
DecimalValue(ds) ==
    IF Len(ds) = 0 THEN 0
    ELSE 10 * DecimalValue(SubSeq(ds, 1, Len(ds) - 1)) + ds[Len(ds)]

RECURSIVE Pow10(_)
Pow10(e) == IF e = 0 THEN 1 ELSE 10 * Pow10(e - 1)

HasSign(s) == Len(s) > 0 /\ s[1] \in Signs

SignOf(s) == IF Len(s) > 0 /\ s[1] = Minus THEN -1 ELSE 1

Unsigned(s) == IF HasSign(s) THEN Tail(s) ELSE s

\* What stands before (after) place k of u; all of u (nothing) when k = 0
Before(u, k) == IF k = 0 THEN u ELSE SubSeq(u, 1, k - 1)

After(u, k) == IF k = 0 THEN <<>> ELSE SubSeq(u, k + 1, Len(u))

NaNWords == { Text(<<"n", "a", "n">>) }
InfWords == { Text(<<"i", "n", "f">>),
              Text(<<"i", "n", "f", "i", "n", "i", "t", "y">>) }

NumberParts(sign, body, e, mantissa, exponent) ==
    [ sign      |-> sign,
      word      |-> LowerAll(body),
      hasExp    |-> e # 0,
      expSign   |-> SignOf(exponent),
      expDigits |-> Unsigned(exponent),
      hasPoint  |-> IndexOf(mantissa, {Point}) # 0,
      whole     |-> Before(mantissa, IndexOf(mantissa, {Point})),
      fraction  |-> After(mantissa, IndexOf(mantissa, {Point})) ]

BodyParts(sign, body, e) ==
    NumberParts(sign, body, e, Before(body, e), After(body, e))

SignedParts(s) ==
    BodyParts(SignOf(s), Unsigned(s), IndexOf(Unsigned(s), ExpMarks))

\* The parts float() reads in a text: white space around it dropped, then
\* [sign] (nan | inf | infinity), or
\* [sign] (digits [. [digits]] | . digits) [(e | E) [sign] digits].
FloatParts(t) == SignedParts(RSkip(LSkip(t, FloatSpace), FloatSpace))

\* The parts are not those of a float
NumberRaises(f) ==
    /\ f.word \notin NaNWords \cup InfWords
    /\ ~ ( /\ IF f.hasPoint
              THEN /\ f.whole = <<>> \/ DigitPart(f.whole)
                   /\ f.fraction = <<>> \/ DigitPart(f.fraction)
                   /\ f.whole # <<>> \/ f.fraction # <<>>
              ELSE DigitPart(f.whole)
           /\ f.hasExp => DigitPart(f.expDigits) )

\* float(t) raises ValueError
float_raises(t) == NumberRaises(FloatParts(t))

\* The digit of place k of the decimal fraction 0.a
DigitAt(a, k) == IF k <= Len(a) THEN a[k] ELSE 0

\* 0.a < 0.b, a and b runs of digit values
FracLess(a, b) ==
    \E k \in 1..(IF Len(a) > Len(b) THEN Len(a) ELSE Len(b)) :
        /\ DigitAt(a, k) < DigitAt(b, k)
        /\ \A j \in 1..(k - 1) : DigitAt(a, j) = DigitAt(b, j)

\* The digits of 2^1024 - 2^970, half way between the largest double and
\* 2^1024: a decimal of this magnitude or more is read as inf.  The number
\* is 0.OverflowDigits * 10^309.
OverflowDigits ==
    << 1, 7, 9, 7, 6, 9, 3, 1, 3, 4, 8, 6, 2, 3, 1, 5, 8, 0, 7, 9, 3, 7, 2, 8, 9, 7, 1, 4, 0, 5,
       3, 0, 3, 4, 1, 5, 0, 7, 9, 9, 3, 4, 1, 3, 2, 7, 1, 0, 0, 3, 7, 8, 2, 6, 9, 3, 6, 1, 7, 3,
       7, 7, 8, 9, 8, 0, 4, 4, 4, 9, 6, 8, 2, 9, 2, 7, 6, 4, 7, 5, 0, 9, 4, 6, 6, 4, 9, 0, 1, 7,
       9, 7, 7, 5, 8, 7, 2, 0, 7, 0, 9, 6, 3, 3, 0, 2, 8, 6, 4, 1, 6, 6, 9, 2, 8, 8, 7, 9, 1, 0,
       9, 4, 6, 5, 5, 5, 5, 4, 7, 8, 5, 1, 9, 4, 0, 4, 0, 2, 6, 3, 0, 6, 5, 7, 4, 8, 8, 6, 7, 1,
       5, 0, 5, 8, 2, 0, 6, 8, 1, 9, 0, 8, 9, 0, 2, 0, 0, 0, 7, 0, 8, 3, 8, 3, 6, 7, 6, 2, 7, 3,
       8, 5, 4, 8, 4, 5, 8, 1, 7, 7, 1, 1, 5, 3, 1, 7, 6, 4, 4, 7, 5, 7, 3, 0, 2, 7, 0, 0, 6, 9,
       8, 5, 5, 5, 7, 1, 3, 6, 6, 9, 5, 9, 6, 2, 2, 8, 4, 2, 9, 1, 4, 8, 1, 9, 8, 6, 0, 8, 3, 4,
       9, 3, 6, 4, 7, 5, 2, 9, 2, 7, 1, 9, 0, 7, 4, 1, 6, 8, 4, 4, 4, 3, 6, 5, 5, 1, 0, 7, 0, 4,
       3, 4, 2, 7, 1, 1, 5, 5, 9, 6, 9, 9, 5, 0, 8, 0, 9, 3, 0, 4, 2, 8, 8, 0, 1, 7, 7, 9, 0, 4,
       1, 7, 4, 4, 9, 7, 7, 9, 2 >>

\* The digits of 2^-1075, half the smallest double above zero: a decimal of
\* this magnitude or less is read as 0.0.  The number is
\* 0.UnderflowDigits * 10^-323.
UnderflowDigits ==
    << 2, 4, 7, 0, 3, 2, 8, 2, 2, 9, 2, 0, 6, 2, 3, 2, 7, 2, 0, 8, 8, 2, 8, 4, 3, 9, 6, 4, 3, 4,
       1, 1, 0, 6, 8, 6, 1, 8, 2, 5, 2, 9, 9, 0, 1, 3, 0, 7, 1, 6, 2, 3, 8, 2, 2, 1, 2, 7, 9, 2,
       8, 4, 1, 2, 5, 0, 3, 3, 7, 7, 5, 3, 6, 3, 5, 1, 0, 4, 3, 7, 5, 9, 3, 2, 6, 4, 9, 9, 1, 8,
       1, 8, 0, 8, 1, 7, 9, 9, 6, 1, 8, 9, 8, 9, 8, 2, 8, 2, 3, 4, 7, 7, 2, 2, 8, 5, 8, 8, 6, 5,
       4, 6, 3, 3, 2, 8, 3, 5, 5, 1, 7, 7, 9, 6, 9, 8, 9, 8, 1, 9, 9, 3, 8, 7, 3, 9, 8, 0, 0, 5,
       3, 9, 0, 9, 3, 9, 0, 6, 3, 1, 5, 0, 3, 5, 6, 5, 9, 5, 1, 5, 5, 7, 0, 2, 2, 6, 3, 9, 2, 2,
       9, 0, 8, 5, 8, 3, 9, 2, 4, 4, 9, 1, 0, 5, 1, 8, 4, 4, 3, 5, 9, 3, 1, 8, 0, 2, 8, 4, 9, 9,
       3, 6, 5, 3, 6, 1, 5, 2, 5, 0, 0, 3, 1, 9, 3, 7, 0, 4, 5, 7, 6, 7, 8, 2, 4, 9, 2, 1, 9, 3,
       6, 5, 6, 2, 3, 6, 6, 9, 8, 6, 3, 6, 5, 8, 4, 8, 0, 7, 5, 7, 0, 0, 1, 5, 8, 5, 7, 6, 9, 2,
       6, 9, 9, 0, 3, 7, 0, 6, 3, 1, 1, 9, 2, 8, 2, 7, 9, 5, 5, 8, 5, 5, 1, 3, 3, 2, 9, 2, 7, 8,
       3, 4, 3, 3, 8, 4, 0, 9, 3, 5, 1, 9, 7, 8, 0, 1, 5, 5, 3, 1, 2, 4, 6, 5, 9, 7, 2, 6, 3, 5,
       7, 9, 5, 7, 4, 6, 2, 2, 7, 6, 6, 4, 6, 5, 2, 7, 2, 8, 2, 7, 2, 2, 0, 0, 5, 6, 3, 7, 4, 0,
       0, 6, 4, 8, 5, 4, 9, 9, 9, 7, 7, 0, 9, 6, 5, 9, 9, 4, 7, 0, 4, 5, 4, 0, 2, 0, 8, 2, 8, 1,
       6, 6, 2, 2, 6, 2, 3, 7, 8, 5, 7, 3, 9, 3, 4, 5, 0, 7, 3, 6, 3, 3, 9, 0, 0, 7, 9, 6, 7, 7,
       6, 1, 9, 3, 0, 5, 7, 7, 5, 0, 6, 7, 4, 0, 1, 7, 6, 3, 2, 4, 6, 7, 3, 6, 0, 0, 9, 6, 8, 9,
       5, 1, 3, 4, 0, 5, 3, 5, 5, 3, 7, 4, 5, 8, 5, 1, 6, 6, 6, 1, 1, 3, 4, 2, 2, 3, 7, 6, 6, 6,
       7, 8, 6, 0, 4, 1, 6, 2, 1, 5, 9, 6, 8, 0, 4, 6, 1, 9, 1, 4, 4, 6, 7, 2, 9, 1, 8, 4, 0, 3,
       0, 0, 5, 3, 0, 0, 5, 7, 5, 3, 0, 8, 4, 9, 0, 4, 8, 7, 6, 5, 3, 9, 1, 7, 1, 1, 3, 8, 6, 5,
       9, 1, 6, 4, 6, 2, 3, 9, 5, 2, 4, 9, 1, 2, 6, 2, 3, 6, 5, 3, 8, 8, 1, 8, 7, 9, 6, 3, 6, 2,
       3, 9, 3, 7, 3, 2, 8, 0, 4, 2, 3, 8, 9, 1, 0, 1, 8, 6, 7, 2, 3, 4, 8, 4, 9, 7, 6, 6, 8, 2,
       3, 5, 0, 8, 9, 8, 6, 3, 3, 8, 8, 5, 8, 7, 9, 2, 5, 6, 2, 8, 3, 0, 2, 7, 5, 5, 9, 9, 5, 6,
       5, 7, 5, 2, 4, 4, 5, 5, 5, 0, 7, 2, 5, 5, 1, 8, 9, 3, 1, 3, 6, 9, 0, 8, 3, 6, 2, 5, 4, 7,
       7, 9, 1, 8, 6, 9, 4, 8, 6, 6, 7, 9, 9, 4, 9, 6, 8, 3, 2, 4, 0, 4, 9, 7, 0, 5, 8, 2, 1, 0,
       2, 8, 5, 1, 3, 1, 8, 5, 4, 5, 1, 3, 9, 6, 2, 1, 3, 8, 3, 7, 7, 2, 2, 8, 2, 6, 1, 4, 5, 4,
       3, 7, 6, 9, 3, 4, 1, 2, 5, 3, 2, 0, 9, 8, 5, 9, 1, 3, 2, 7, 6, 6, 7, 2, 3, 6, 3, 2, 8, 1,
       2, 5 >>

\* A float whose numerator or denominator is beyond the integers of the
\* model: s * m * 10^x, m a run of digit values without a zero at either end
Dec(s, m, x) == [k |-> "dec", n |-> <<s, m>>, d |-> x]

\* The float read for sign * sig * 10^x, sig a run of digit values without
\* a zero at either end: exact, but inf at or beyond the overflow mark and
\* 0.0 at or below the underflow mark.
Rounded(sign, sig, x) ==
    IF sig = <<>> THEN Zero
    ELSE IF \/ Len(sig) + x > 309
            \/ Len(sig) + x = 309 /\ ~FracLess(sig, OverflowDigits)
         THEN Inf(sign)
    ELSE IF \/ Len(sig) + x < -323
            \/ Len(sig) + x = -323 /\ ~FracLess(UnderflowDigits, sig)
         THEN Zero
    ELSE IF x >= 0 /\ Len(sig) + x <= 9
         THEN Num(sign * DecimalValue(sig) * Pow10(x), 1)
    ELSE IF x < 0 /\ x >= -9 /\ Len(sig) <= 9
         THEN Num(sign * DecimalValue(sig), Pow10(-x))
    ELSE Dec(sign, sig, x)

\* sign * lead * 10^x, the zeros at the end of lead moved into the exponent
Scaled(sign, lead, x) ==
    Rounded(sign, DropTrailingZeros(lead),
            x + Len(lead) - Len(DropTrailingZeros(lead)))

\* The value of the digits of an exponent
ExpValue(ds) == IF Len(ds) > 9 THEN 1000000000 ELSE DecimalValue(ds)

NumberValue(f) ==
    IF f.word \in NaNWords THEN NaN
    ELSE IF f.word \in InfWords THEN Inf(f.sign)
    ELSE Scaled(f.sign,
                DropZeros(DigitsOf(f.whole) \o DigitsOf(f.fraction)),
                f.expSign * ExpValue(DropZeros(DigitsOf(f.expDigits)))
                    - Len(DigitsOf(f.fraction)))

\* float(t): the value of a text float() accepts
float(t) == NumberValue(FloatParts(t))

\* A slip: the count test lets more than four fields through.
ParseRaises_atmost(t) ==
    LET fields == split(t)
    IN  \/ \E k \in 1..Len(fields) : float_raises(strip(fields[k]))
        \/ Len(fields) < 4

\* The try block raises: some float(x.strip()) does, or len(coords_vals) != 4
ParseRaises(t) ==
    LET fields == split(t)
    IN  \/ \E k \in 1..Len(fields) : float_raises(strip(fields[k]))
        \/ Len(fields) # 4

\* coords_vals
ParsedCoords(t) ==
    LET fields == split(t)
    IN  [k \in 1..Len(fields) |-> float(strip(fields[k]))]

-----------------------------------------------------------------------------
(* The block averager as a process: chunk_data called on a list of tiles.  *)

\* A tile of shape (R, C) handed to chunk_data.  Its first latitude is 10*k,
\* so a list of such tiles in ascending k is in the canonical order that
\* load_data_for_date returns, and a tile is recognised by its first latitude.
InputTile(R, C, k) ==
    << [r \in 1..R |-> [c \in 1..C |-> Num((r + c + k) % 3, 1)]],
       [r \in 1..R |-> 10 * k + r - 1],
       [c \in 1..C |-> c] >>

Shapes == (1..MaxDim) \X (1..MaxDim)

InitChunk ==
    /\ pc = "chunk_call"
    /\ \E len \in 0..MaxTiles : \E sh \in [1..len -> Shapes] :
            input_list = [k \in 1..len |-> InputTile(sh[k][1], sh[k][2], k)]
    /\ data_list = input_list
    /\ chunk_size \in 1..MaxChunk
    /\ i = 0
    /\ files = <<>> /\ date_wanted = "" /\ coords = <<0, 0, 0, 0>>
    /\ dateEarly = "" /\ dateLater = "" /\ relative = FALSE /\ normalize = FALSE
    /\ data_list1 = <<>> /\ data_list2 = <<>> /\ difference_list = <<>>
    /\ raised = FALSE
    /\ custom_coords_text = <<>> /\ preset_choice = "" /\ error_shown = FALSE

loadVars == <<files, date_wanted, coords>>
diffVars == <<dateEarly, dateLater, relative, normalize, data_list1, data_list2,
              difference_list>>
uiVars == <<custom_coords_text, preset_choice, error_shown>>

\* list_length = len(data_list); i = list_length
ChunkEnter ==
    /\ pc = "chunk_call"
    /\ i' = Len(data_list)
    /\ pc' = "chunk_loop"
    /\ UNCHANGED <<data_list, input_list, chunk_size, raised, loadVars, diffVars, uiVars>>

\* while i > 0: the try branch, block_average returns
ChunkAverage ==
    /\ pc = "chunk_loop"
    /\ i > 0
    /\ ~block_average_raises(data_list[i][1], chunk_size)
    /\ data_list' = chunk_iteration(data_list, i, chunk_size)
    /\ i' = i - 1
    /\ UNCHANGED <<pc, input_list, chunk_size, raised, loadVars, diffVars, uiVars>>

\* while i > 0: block_average raises, except ValueError: del data_list[i-1]
ChunkDrop ==
    /\ pc = "chunk_loop"
    /\ i > 0
    /\ block_average_raises(data_list[i][1], chunk_size)
    /\ data_list' = chunk_iteration(data_list, i, chunk_size)
    /\ i' = i - 1
    /\ UNCHANGED <<pc, input_list, chunk_size, raised, loadVars, diffVars, uiVars>>

\* the loop ends and chunk_data returns
ChunkReturn ==
    /\ pc = "chunk_loop"
    /\ i = 0
    /\ pc' = "chunk_done"
    /\ UNCHANGED <<data_list, input_list, i, chunk_size, raised, loadVars, diffVars, uiVars>>

NextChunk == ChunkEnter \/ ChunkAverage \/ ChunkDrop \/ ChunkReturn

SpecChunk == InitChunk /\ [][NextChunk]_vars

\* The RasterTile invariant of a tile.
Aligned(tile) == Rows(tile[1]) = Len(tile[2]) /\ Cols(tile[1]) = Len(tile[3])

\* The tiles of the input that chunk_data is to keep.
Survivors(l, n) == SelectSeq(l, LAMBDA t : Rows(t[1]) >= n /\ Cols(t[1]) >= n)

\* C1: after chunk_data(data_list, n), n >= 1, every remaining tile has as
\* many grid rows as latitudes and as many grid columns as longitudes,
\* whatever the input shape.
C1_AlignedAfterChunk ==
    pc = "chunk_done" => \A k \in 1..Len(data_list) : Aligned(data_list[k])

\* C7: chunk_data replaces the grid of a tile of shape (R, C) with R >= n and
\* C >= n by one of shape (R div n, C div n), removes the tile when R < n or
\* C < n, and goes on after a removal: the remaining tiles are the tiles to
\* keep, each averaged once, in their original order.
C7_ChunkShapes ==
    pc = "chunk_done" =>
        LET keep == Survivors(input_list, chunk_size)
        IN  /\ Len(data_list) = Len(keep)
            /\ \A k \in 1..Len(keep) :
                /\ data_list[k][2][1] = keep[k][2][1]
                /\ Rows(data_list[k][1]) = Rows(keep[k][1]) \div chunk_size
                /\ Cols(data_list[k][1]) = Cols(keep[k][1]) \div chunk_size
                /\ \A r \in 1..Rows(data_list[k][1]) :
                       Len(data_list[k][1][r]) = Cols(keep[k][1]) \div chunk_size

\* C7's case: a call with a factor above 1 that removed the first tile and
\* averaged the second.
C7_Witness ==
    /\ pc = "chunk_done"
    /\ chunk_size > 1
    /\ Len(input_list) = 2
    /\ Len(data_list) = 1
    /\ data_list[1][2][1] = input_list[2][2][1]
    /\ Rows(input_list[2][1]) > Rows(data_list[1][1])

-----------------------------------------------------------------------------
(* The trimmer as a process: load_data_for_date called on a store.         *)

CoordValues == 1..3

\* The bounding boxes: south <= north, west <= east.
Ranges == { r \in CoordValues \X CoordValues : r[1] <= r[2] }
Boxes == { <<a[1], a[2], b[1], b[2]>> : a \in Ranges, b \in Ranges }

\* Coordinate vectors in any order of entries.
Vectors == UNION { [1..len -> CoordValues] : len \in 1..MaxLen }

chunkVars == <<input_list, i, chunk_size>>

InitIdle ==
    /\ input_list = <<>> /\ i = 0 /\ chunk_size = 1
    /\ dateEarly = "" /\ dateLater = "" /\ relative = FALSE /\ normalize = FALSE
    /\ data_list1 = <<>> /\ data_list2 = <<>> /\ difference_list = <<>>
    /\ raised = FALSE
    /\ custom_coords_text = <<>> /\ preset_choice = "" /\ error_shown = FALSE

\* One file of the requested date, with any coordinate vectors.
InitTrim ==
    /\ pc = "load_call"
    /\ date_wanted = "d1"
    /\ \E lat \in Vectors, lon \in Vectors : files = <<MakeFile("d1", lat, lon, "a")>>
    /\ coords \in Boxes
    /\ data_list = <<>>
    /\ InitIdle

\* data = load_data_for_date(sel_date_obj, coords)
Load ==
    /\ pc = "load_call"
    /\ data_list' = load_data_for_date(date_wanted, coords, files)
    /\ pc' = "load_done"
    /\ UNCHANGED <<loadVars, chunkVars, diffVars, raised, uiVars>>

NextLoad == Load

SpecTrim == InitTrim /\ [][NextLoad]_vars

InRange(x, lo, hi) == lo <= x /\ x <= hi

AllInRange(v, lo, hi) == \A k \in 1..Len(v) : InRange(v[k], lo, hi)

SomeInRange(v, lo, hi) == \E k \in 1..Len(v) : InRange(v[k], lo, hi)

CountInRange(v, lo, hi) == Cardinality({ k \in 1..Len(v) : InRange(v[k], lo, hi) })

Monotone(v) ==
    \/ \A k \in 1..(Len(v) - 1) : v[k] <= v[k + 1]
    \/ \A k \in 1..(Len(v) - 1) : v[k] >= v[k + 1]

\* w is the run v[a], ..., v[a + Len(w) - 1] of v
RunOf(w, v, a) ==
    /\ a >= 1 /\ a + Len(w) - 1 <= Len(v)
    /\ \A k \in 1..Len(w) : w[k] = v[a + k - 1]

\* A tile is dropped exactly when no latitude or no longitude is in range.
DroppedExactly ==
    LET f == files[1]
    IN  (Len(data_list) = 0) <=>
            (~SomeInRange(f.lat, coords[1], coords[2])
                \/ ~SomeInRange(f.lon, coords[3], coords[4]))

\* C2, as stated: the cropped tile holds only latitudes in [south, north]
\* and only longitudes in [west, east], whatever the order of the entries of
\* the file's vectors, and a tile is dropped exactly when no latitude or no
\* longitude is in range.
C2_OnlyInRangeKept ==
    pc = "load_done" =>
        /\ DroppedExactly
        /\ \A k \in 1..Len(data_list) :
            /\ AllInRange(data_list[k][2], coords[1], coords[2])
            /\ AllInRange(data_list[k][3], coords[3], coords[4])

\* C2, amended: the cropped tile is the run of the file from the first to
\* the last in-range latitude and from the first to the last in-range
\* longitude: its end entries are in range, every in-range entry is kept, the
\* grid is the matching block of the masked grid, and when a vector is
\* monotone only in-range entries of it are kept; a tile is dropped exactly
\* when no latitude or no longitude is in range.
C2_CropIsRun ==
    pc = "load_done" =>
        /\ DroppedExactly
        /\ Len(data_list) <= 1
        /\ \A k \in 1..Len(data_list) :
            LET f == files[1]
                t == data_list[k]
                s == coords[1]
                n == coords[2]
                w == coords[3]
                e == coords[4]
            IN  /\ Rows(t[1]) = Len(t[2])
                /\ InRange(t[2][1], s, n) /\ InRange(t[2][Len(t[2])], s, n)
                /\ InRange(t[3][1], w, e) /\ InRange(t[3][Len(t[3])], w, e)
                /\ CountInRange(t[2], s, n) = CountInRange(f.lat, s, n)
                /\ CountInRange(t[3], w, e) = CountInRange(f.lon, w, e)
                /\ Monotone(f.lat) => AllInRange(t[2], s, n)
                /\ Monotone(f.lon) => AllInRange(t[3], w, e)
                /\ \E a \in 1..Len(f.lat), b \in 1..Len(f.lon) :
                    /\ RunOf(t[2], f.lat, a)
                    /\ RunOf(t[3], f.lon, b)
                    /\ \A r \in 1..Len(t[2]) :
                        /\ Len(t[1][r]) = Len(t[3])
                        /\ \A c \in 1..Len(t[3]) :
                            t[1][r][c] =
                                IF f.light[a + r - 1][b + c - 1] < 0 THEN NaN
                                ELSE Num(f.light[a + r - 1][b + c - 1], 1)

\* C2's case: a file cropped on both axes, with monotone vectors, that lost
\* out-of-range entries at both ends of its latitudes.
C2_Witness ==
    /\ pc = "load_done"
    /\ Len(data_list) = 1
    /\ Monotone(files[1].lat) /\ Monotone(files[1].lon)
    /\ Len(files[1].lat) = 3 /\ Len(data_list[1][2]) = 1
    /\ Len(data_list[1][3]) < Len(files[1].lon)

-----------------------------------------------------------------------------
(* The trimmer on a store of several files, discovered in any order.       *)

\* The files a store may hold: tiles of date d1 at two latitude and two
\* longitude offsets, each in two versions of its grid, and a tile of
\* another date.
StoreFiles ==
    { MakeFile("d1", lat, lon, p) :
        lat \in {<<1, 2>>, <<2, 3>>}, lon \in {<<1, 2>>, <<2, 3>>}, p \in {"a", "b"} }
    \cup { MakeFile("d2", <<1, 2>>, <<1, 2>>, "a") }

Stores == UNION { [1..len -> StoreFiles] : len \in 0..MaxFiles }

OrderBoxes ==
    { <<a[1], a[2], b[1], b[2]>> : a \in {<<1, 3>>, <<2, 3>>, <<3, 3>>},
                                   b \in {<<1, 3>>, <<2, 3>>} }

InitOrder ==
    /\ pc = "load_call"
    /\ date_wanted = "d1"
    /\ files \in Stores
    /\ coords \in OrderBoxes
    /\ data_list = <<>>
    /\ InitIdle

SpecOrder == InitOrder /\ [][NextLoad]_vars

\* The orders in which glob.glob may discover the same files.
Orders(fs) ==
    { [k \in 1..Len(fs) |-> fs[p[k]]] :
        p \in { q \in [1..Len(fs) -> 1..Len(fs)] :
                    \A a, b \in 1..Len(fs) : a # b => q[a] # q[b] } }

SameKey(a, b) == a[2][1] = b[2][1] /\ a[3][1] = b[3][1]

KeysDistinct(l) == \A a, b \in 1..Len(l) : a # b => ~SameKey(l[a], l[b])

OrderedByKey(l) == \A k \in 1..(Len(l) - 1) : ~KeyLess(l[k + 1], l[k])

Occurrences(l, t) == Cardinality({ k \in 1..Len(l) : l[k] = t })

\* C5, as stated: the returned TileSet is the same, position by position,
\* for every discovery order of the same files, also when two surviving
\* tiles share their first latitude and first longitude.
C5_OrderIndependent ==
    pc = "load_done" =>
        \A other \in Orders(files) :
            load_data_for_date(date_wanted, coords, other) = data_list

\* C5, amended: for every discovery order the returned TileSet holds the
\* same tiles, in ascending order of (first latitude, first longitude); it is
\* the same sequence for every discovery order when no two surviving tiles
\* share that key.
C5_OrderIndependentUpToTies ==
    pc = "load_done" =>
        /\ OrderedByKey(data_list)
        /\ \A other \in Orders(files) :
            LET result == load_data_for_date(date_wanted, coords, other)
            IN  /\ Len(result) = Len(data_list)
                /\ \A k \in 1..Len(result) :
                       Occurrences(result, result[k]) = Occurrences(data_list, result[k])
                /\ KeysDistinct(data_list) => result = data_list

\* C5's case: three tiles with distinct keys survive, discovered out of
\* order.
C5_Witness ==
    /\ pc = "load_done"
    /\ Len(data_list) = 3
    /\ KeysDistinct(data_list)
    /\ KeyLess(CropTile(files[3], coords), CropTile(files[1], coords))

-----------------------------------------------------------------------------
(* The normalizer as a process: normalize_data called on a list of tiles.  *)

\* The cells of a tile handed to normalize_data: missing, or a brightness.
CellValues == {NaN, Num(0, 1), Num(1, 1), Num(2, 1)}

NormShapes == {<<1, 1>>, <<1, 2>>, <<2, 1>>}

NormGrids == UNION { [1..sh[1] -> [1..sh[2] -> CellValues]] : sh \in NormShapes }

\* The k-th tile of a list, with grid g: as for chunk_data, its first
\* latitude is 10*k.
NormTile(g, k) ==
    << g, [r \in 1..Rows(g) |-> 10 * k + r - 1], [c \in 1..Cols(g) |-> c] >>

InitNorm ==
    /\ pc = "normalize_call"
    /\ \E len \in 0..MaxTiles : \E gs \in [1..len -> NormGrids] :
            input_list = [k \in 1..len |-> NormTile(gs[k], k)]
    /\ data_list = input_list
    /\ i = 0 /\ chunk_size = 1
    /\ files = <<>> /\ date_wanted = "" /\ coords = <<0, 0, 0, 0>>
    /\ dateEarly = "" /\ dateLater = "" /\ relative = FALSE /\ normalize = TRUE
    /\ data_list1 = <<>> /\ data_list2 = <<>> /\ difference_list = <<>>
    /\ raised = FALSE
    /\ custom_coords_text = <<>> /\ preset_choice = "" /\ error_shown = FALSE

\* data = normalize_data(data)
Normalize ==
    /\ pc = "normalize_call"
    /\ data_list' = normalize_data(data_list)
    /\ pc' = "normalize_done"
    /\ UNCHANGED <<loadVars, chunkVars, diffVars, raised, uiVars>>

NextNorm == Normalize

SpecNorm == InitNorm /\ [][NextNorm]_vars

\* The cells of a list of tiles, as a sequence.
RECURSIVE Flatten(_)
Flatten(ss) == IF Len(ss) = 0 THEN <<>> ELSE Head(ss) \o Flatten(Tail(ss))

CellsOf(l) == Flatten([k \in 1..Len(l) |-> Flatten(l[k][1])])

\* The sum of the cells that are not missing.
NonMissingSum(l) == SumSeq(SelectSeq(CellsOf(l), LAMBDA x : ~IsNaN(x)))

\* C3: normalize_data excludes missing cells from the grand total: whenever
\* the non-missing cells of the input have a non-zero sum, the non-missing
\* cells of the result sum to 1, and the coordinate vectors are unchanged.
C3_NormalizedSumsToOne ==
    pc = "normalize_done" =>
        /\ Len(data_list) = Len(input_list)
        /\ \A k \in 1..Len(data_list) :
            data_list[k][2] = input_list[k][2] /\ data_list[k][3] = input_list[k][3]
        /\ NonMissingSum(input_list) # Zero => NonMissingSum(data_list) = Num(1, 1)

\* C8: when the grand total is zero, normalize_data returns no cell that
\* is missing or infinite because of the division by that total.
C8_ZeroTotalGuarded ==
    (/\ pc = "normalize_done"
     /\ \A k \in 1..Len(CellsOf(input_list)) : IsNum(CellsOf(input_list)[k])
     /\ SumLights(input_list) = Zero)
        => \A k \in 1..Len(CellsOf(data_list)) : IsNum(CellsOf(data_list)[k])

-----------------------------------------------------------------------------
(* The differencer as a process: get_difference_data called on a store.    *)

\* The files a store may hold: for each of two dates, a tile of two columns
\* and its eastern neighbour of three, each in two versions of its grid (the
\* second with invalid, negative, samples).
DiffFiles ==
    { MakeFile(date, <<1, 2>>, lon, p) :
        date \in {"d1", "d2"}, lon \in {<<1, 2>>, <<3, 4, 5>>}, p \in {"c", "d"} }

DiffStores == UNION { [1..len -> DiffFiles] : len \in 0..MaxFiles }

DiffBoxes == {<<1, 2, 1, 5>>, <<1, 2, 2, 4>>, <<1, 2, 1, 3>>, <<2, 2, 1, 5>>}

DiffChunks == {1, 2}

InitDiff ==
    /\ pc = "diff_call"
    /\ files \in DiffStores
    /\ coords \in DiffBoxes
    /\ dateEarly = "d1" /\ dateLater = "d2"
    /\ relative \in BOOLEAN
    /\ normalize \in BOOLEAN
    /\ chunk_size \in DiffChunks
    /\ data_list1 = <<>> /\ data_list2 = <<>> /\ difference_list = <<>>
    /\ raised = FALSE
    /\ date_wanted = "" /\ data_list = <<>> /\ input_list = <<>> /\ i = 0
    /\ custom_coords_text = <<>> /\ preset_choice = "" /\ error_shown = FALSE

\* get_difference_data returns difference_list
GetDifferenceReturns ==
    /\ pc = "diff_call"
    /\ LET l1 == PreparedList(dateEarly, coords, chunk_size, normalize, files)
           l2 == PreparedList(dateLater, coords, chunk_size, normalize, files)
       IN  /\ ~ZipRaises(l1, l2)
           /\ data_list1' = l1
           /\ data_list2' = l2
           /\ difference_list' = ZipDifference(l1, l2, relative)
    /\ pc' = "diff_done"
    /\ UNCHANGED <<files, coords, date_wanted, data_list, input_list, i, chunk_size,
                   dateEarly, dateLater, relative, normalize, raised, uiVars>>

\* get_difference_data ends with the ValueError of a pair that cannot be
\* broadcast
GetDifferenceRaises ==
    /\ pc = "diff_call"
    /\ LET l1 == PreparedList(dateEarly, coords, chunk_size, normalize, files)
           l2 == PreparedList(dateLater, coords, chunk_size, normalize, files)
       IN  /\ ZipRaises(l1, l2)
           /\ data_list1' = l1
           /\ data_list2' = l2
    /\ raised' = TRUE
    /\ pc' = "diff_done"
    /\ UNCHANGED <<files, coords, date_wanted, data_list, input_list, i, chunk_size,
                   dateEarly, dateLater, relative, normalize, difference_list, uiVars>>

NextDiff == GetDifferenceReturns \/ GetDifferenceRaises

SpecDiff == InitDiff /\ [][NextDiff]_vars

\* A brightness that is neither missing nor negative nor infinite.
Brightness(x) == IsNum(x) /\ x.n >= 0

\* The (entry, row, column) places of the result.
Places ==
    { p \in (1..Len(difference_list)) \X (1..3) \X (1..3) :
        /\ p[2] <= Rows(difference_list[p[1]][1])
        /\ p[3] <= Cols(difference_list[p[1]][1]) }

Earlier(p) == At(data_list1[p[1]][1], p[2], p[3])
Later(p) == At(data_list2[p[1]][1], p[2], p[3])
Cell(p) == difference_list[p[1]][1][p[2]][p[3]]

\* C4, as stated: in relative mode, for brightnesses that are not missing
\* and not negative, a cell whose earlier value is zero is the negative of
\* the later value and is strictly negative, and a cell whose earlier value
\* is not zero is later/earlier and is >= 0.
C4_SentinelStrictlyNegative ==
    (pc = "diff_done" /\ ~raised /\ relative) =>
        \A p \in Places :
            (Brightness(Earlier(p)) /\ Brightness(Later(p))) =>
                IF Earlier(p).n = 0
                THEN Cell(p) = FNeg(Later(p)) /\ IsNum(Cell(p)) /\ Cell(p).n < 0
                ELSE /\ IsNum(Cell(p)) /\ Cell(p).n >= 0
                     /\ Cell(p).n * Earlier(p).n * Later(p).d
                            = Later(p).n * Earlier(p).d * Cell(p).d

\* C4, amended: a cell whose earlier value is zero is the negative of the
\* later value: it is <= 0, and strictly negative exactly when the later
\* value is above zero (zero over zero gives zero, which the ratio path gives
\* too); a cell whose earlier value is not zero is later/earlier and is >= 0.
C4_SentinelNegativeUnlessZero ==
    (pc = "diff_done" /\ ~raised /\ relative) =>
        \A p \in Places :
            (Brightness(Earlier(p)) /\ Brightness(Later(p))) =>
                IF Earlier(p).n = 0
                THEN /\ IsNum(Cell(p))
                     /\ Cell(p).n * Later(p).d = -Later(p).n * Cell(p).d
                     /\ Cell(p).n <= 0
                     /\ Cell(p).n < 0 <=> Later(p).n > 0
                ELSE /\ IsNum(Cell(p)) /\ Cell(p).n >= 0
                     /\ Cell(p).n * Earlier(p).n * Later(p).d
                            = Later(p).n * Earlier(p).d * Cell(p).d

\* C4's case: a relative difference with a newly lit cell (earlier zero,
\* later above zero) and a cell with a true ratio above zero.
C4_Witness ==
    /\ pc = "diff_done" /\ ~raised /\ relative
    /\ \E p \in Places :
        /\ Brightness(Earlier(p)) /\ Brightness(Later(p))
        /\ Earlier(p).n = 0 /\ Later(p).n > 0
    /\ \E p \in Places :
        /\ Brightness(Earlier(p)) /\ Brightness(Later(p))
        /\ Earlier(p).n > 0 /\ Later(p).n > 0

\* C6: every returned triple is computed from two tiles of the same
\* geography: the i-th tiles of the two dates have the same latitude and
\* longitude vectors.
C6_PairsSameGeography ==
    (pc = "diff_done" /\ ~raised) =>
        \A k \in 1..Len(difference_list) :
            /\ data_list1[k][2] = data_list2[k][2]
            /\ data_list1[k][3] = data_list2[k][3]

\* The result pairs the two TileSets by position.
PairedByPosition ==
    /\ Len(difference_list) = Min(Len(data_list1), Len(data_list2))
    /\ \A k \in 1..Len(difference_list) :
        /\ difference_list[k][2] = data_list1[k][2]
        /\ difference_list[k][3] = data_list1[k][3]
        /\ ~relative =>
            LET d == difference_list[k][1]
                a == data_list1[k][1]
                b == data_list2[k][1]
            IN  /\ Rows(d) = Max(Rows(a), Rows(b))
                /\ \A r \in 1..Rows(d) :
                    /\ Len(d[r]) = Max(Cols(a), Cols(b))
                    /\ \A c \in 1..Len(d[r]) :
                        LET x == At(a, r, c)
                            y == At(b, r, c)
                        IN  /\ (IsNaN(x) \/ IsNaN(y)) => IsNaN(d[r][c])
                            /\ (IsNum(x) /\ IsNum(y)) =>
                                /\ IsNum(d[r][c])
                                /\ d[r][c].n * x.d * y.d
                                       = (y.n * x.d - x.n * y.d) * d[r][c].d

\* C10, as stated: the result has min(|A|, |B|) entries, the i-th computed
\* from the i-th tiles of A and B (later minus earlier in absolute mode) and
\* carrying the vectors of A's; surplus tiles are dropped without any error.
C10_PositionalNoError ==
    pc = "diff_done" => (~raised /\ PairedByPosition)

\* C10, amended: the call raises exactly when the grids of some i-th pair,
\* i <= min(|A|, |B|), cannot be broadcast together; otherwise the result is
\* as stated, later minus earlier being taken under NumPy broadcasting, and
\* surplus tiles are dropped without any error.
C10_PositionalUnlessShapesClash ==
    pc = "diff_done" =>
        /\ raised <=>
            \E k \in 1..Min(Len(data_list1), Len(data_list2)) :
                LET a == data_list1[k][1]
                    b == data_list2[k][1]
                IN  \/ (Rows(a) # Rows(b) /\ Rows(a) # 1 /\ Rows(b) # 1)
                    \/ (Cols(a) # Cols(b) /\ Cols(a) # 1 /\ Cols(b) # 1)
        /\ ~raised => PairedByPosition

\* C10's case: an absolute difference of TileSets of different sizes that
\* returned an entry.
C10_Witness ==
    /\ pc = "diff_done" /\ ~raised /\ ~relative
    /\ Len(data_list1) # Len(data_list2)
    /\ Len(difference_list) >= 1
    /\ \E p \in Places : IsNum(Cell(p)) /\ Cell(p).n # 0

-----------------------------------------------------------------------------
(* Coordinate handling as a process.                                       *)

\* The fields a typed text is made of: those float() accepts (a fullwidth
\* digit two, U+FF12, between an ideographic space, U+3000, and a no-break
\* space, U+00A0; a signed decimal with an underscore, a point and an
\* exponent; the word nan) and those it refuses (the empty field, a space
\* with an em space, U+2003, and a letter).
NumericFields == { <<12288, 65298, 160>>,
                   Text(<<"-", "1", "_", "2", ".", "5", "e", "1">>),
                   Text(<<"n", "a", "n">>) }
OtherFields == { <<>>, <<32, 8195>>, Text(<<"x">>) }
FieldTexts == NumericFields \cup OtherFields

\* The float a numeric field of the model stands for.
FieldNumber(f) ==
    CASE f = <<12288, 65298, 160>> -> Num(2, 1)
      [] f = Text(<<"-", "1", "_", "2", ".", "5", "e", "1">>) -> Num(-125, 1)
      [] f = Text(<<"n", "a", "n">>) -> NaN

RECURSIVE Join(_)
Join(fs) ==
    IF Len(fs) = 1 THEN fs[1] ELSE fs[1] \o <<Comma>> \o Join(Tail(fs))

TypedTexts == { Join(fs) : fs \in UNION { [1..len -> FieldTexts] : len \in 1..MaxFields } }

PresetNames == DOMAIN PRESET_COORD_LAYOUTS

InitCoords ==
    /\ pc = "coords_call"
    /\ custom_coords_text \in TypedTexts
    /\ preset_choice \in PresetNames
    /\ coords = <<>>
    /\ error_shown = FALSE
    /\ files = <<>> /\ date_wanted = "" /\ data_list = <<>> /\ input_list = <<>>
    /\ i = 0 /\ chunk_size = 1
    /\ dateEarly = "" /\ dateLater = "" /\ relative = FALSE /\ normalize = FALSE
    /\ data_list1 = <<>> /\ data_list2 = <<>> /\ difference_list = <<>>
    /\ raised = FALSE

otherVars == <<files, date_wanted, data_list, input_list, i, chunk_size, dateEarly,
               dateLater, relative, normalize, data_list1, data_list2,
               difference_list, raised>>

\* if custom_coords_text.strip(): the try block succeeds
CoordsFromText ==
    /\ pc = "coords_call"
    /\ Len(strip(custom_coords_text)) > 0
    /\ ~ParseRaises(custom_coords_text)
    /\ coords' = ParsedCoords(custom_coords_text)
    /\ pc' = "coords_done"
    /\ UNCHANGED <<custom_coords_text, preset_choice, error_shown, otherVars>>

\* if custom_coords_text.strip(): the try block raises, except Exception
CoordsFallback ==
    /\ pc = "coords_call"
    /\ Len(strip(custom_coords_text)) > 0
    /\ ParseRaises(custom_coords_text)
    /\ error_shown' = TRUE
    /\ coords' = PresetValues(preset_choice)
    /\ pc' = "coords_done"
    /\ UNCHANGED <<custom_coords_text, preset_choice, otherVars>>

\* else: the preset
CoordsFromPreset ==
    /\ pc = "coords_call"
    /\ Len(strip(custom_coords_text)) = 0
    /\ coords' = PresetTuple(preset_choice)
    /\ pc' = "coords_done"
    /\ UNCHANGED <<custom_coords_text, preset_choice, error_shown, otherVars>>

NextCoords == CoordsFromText \/ CoordsFallback \/ CoordsFromPreset

SpecCoords == InitCoords /\ [][NextCoords]_vars

\* The text is four fields, each of them one float() reads as a float.
WellFormedTexts == { Join(fs) : fs \in [1..4 -> NumericFields] }

WellFormed(t) == t \in WellFormedTexts

\* The four numbers of a well-formed text, in the order typed.
TypedNumbers(t) ==
    LET fs == CHOOSE gs \in [1..4 -> NumericFields] : t = Join(gs)
    IN  [k \in 1..4 |-> FieldNumber(fs[k])]

\* The bounds of the selected preset as (south, north, west, east).
SelectedPreset ==
    << PRESET_COORD_LAYOUTS[preset_choice].lat_min,
       PRESET_COORD_LAYOUTS[preset_choice].lat_max,
       PRESET_COORD_LAYOUTS[preset_choice].lon_min,
       PRESET_COORD_LAYOUTS[preset_choice].lon_max >>

Blank(t) == \A k \in 1..Len(t) : t[k] \in Whitespace

\* C9, as stated: a non-empty malformed text gives a user-visible error
\* and the bounds of the selected preset; a well-formed text gives its four
\* numbers in the order typed; the empty text gives the selected preset.
C9_MalformedReported ==
    pc = "coords_done" =>
        /\ (Len(custom_coords_text) > 0 /\ ~WellFormed(custom_coords_text)) =>
                (error_shown /\ coords = SelectedPreset)
        /\ WellFormed(custom_coords_text) =>
                (~error_shown /\ coords = TypedNumbers(custom_coords_text))
        /\ Len(custom_coords_text) = 0 => coords = SelectedPreset

\* C9, amended: a malformed text that is not blank gives a user-visible
\* error and the bounds of the selected preset; a well-formed text gives its
\* four numbers in the order typed; a text that is empty or holds only
\* whitespace gives the selected preset, and no error is reported.
C9_MalformedReportedUnlessBlank ==
    pc = "coords_done" =>
        /\ (~Blank(custom_coords_text) /\ ~WellFormed(custom_coords_text)) =>
                (error_shown /\ coords = SelectedPreset)
        /\ WellFormed(custom_coords_text) =>
                (~error_shown /\ coords = TypedNumbers(custom_coords_text))
        /\ Blank(custom_coords_text) => (~error_shown /\ coords = SelectedPreset)

\* C9's case: a text of five numeric fields was refused and the bounds of
\* the Khartoum preset were taken.
C9_Witness ==
    /\ pc = "coords_done"
    /\ error_shown
    /\ preset_choice = "Khartoum"
    /\ \E fs \in [1..5 -> NumericFields] : custom_coords_text = Join(fs)
    /\ coords = <<Num(59, 4), Num(33, 2), Num(158, 5), Num(67, 2)>>

=============================================================================
